---- MODULE Spec2Model ----
(***************************************************************************)
(* Model of gtsam::Values typed access (gtsam/nonlinear/Values-inl.h):     *)
(* the templated insert/update/at/exists, the fixed-size -> dynamic-size   *)
(* wrapping of Eigen arrays (internal::handle_wrap), the unwrapping helper *)
(* internal::handle, the Filtered / ConstFiltered views and the            *)
(* constructors of a Values from a view.                                   *)
(***************************************************************************)
EXTENDS Integers, Sequences, FiniteSets, TLC

(* ------------------------------------------------------------------ *)
(* Bounds of the model                                                *)
(* ------------------------------------------------------------------ *)

\* keys are 1..MaxKey
MaxKey == 3

Keys == 1..MaxKey

(* ------------------------------------------------------------------ *)
(* Types: a C++ type is <kind, rows, cols>; Eigen::Matrix<double,R,C>  *)
(* has kind "Matrix" and the template arguments R, C (-1 is dynamic).  *)
(* ------------------------------------------------------------------ *)

\* Eigen::Dynamic, written -1 in the template arguments of the source
Dynamic == -1

EigenMatrix(R, C) == [kind |-> "Matrix", rows |-> R, cols |-> C]

\* Eigen::Matrix<double, -1, 1>, alias Eigen::VectorXd / gtsam::Vector
VectorXd == EigenMatrix(Dynamic, 1)

\* Eigen::Matrix<double, -1, -1>, alias Eigen::MatrixXd / gtsam::Matrix
MatrixXd == EigenMatrix(Dynamic, Dynamic)

Vector3 == EigenMatrix(3, 1)

Vector4 == EigenMatrix(4, 1)

Matrix22 == EigenMatrix(2, 2)

\* a storable type that is no Eigen array (the Rot3 of the repository's test)
Rot3 == [kind |-> "Rot3", rows |-> 0, cols |-> 0]

\* the generic base class gtsam::Value (the default ValueType of filter)
Value == [kind |-> "Value", rows |-> 0, cols |-> 0]

NoType == [kind |-> "void", rows |-> 0, cols |-> 0]

\* the concrete types a caller instantiates the templates with
ConcreteTypes == {Rot3, VectorXd, MatrixXd, Vector3, Vector4, Matrix22}

IsFixedVector(T) == T.kind = "Matrix" /\ T.rows # Dynamic /\ T.cols = 1

IsFixedMatrix(T) == T.kind = "Matrix" /\ T.rows # Dynamic /\ T.cols # Dynamic /\ T.cols # 1

IsFixed(T) == IsFixedVector(T) \/ IsFixedMatrix(T)

(* ------------------------------------------------------------------ *)
(* Payloads.  An Eigen array is its rows(), cols() and coefficients;   *)
(* a Rot3 is Rot3::Rz(M_PI/3 * j), kept as j.                          *)
(* ------------------------------------------------------------------ *)

Arr(r, c, d) == [rows |-> r, cols |-> c, data |-> d]

RotZ(j) == [rz |-> j]

NoVal == [none |-> TRUE]

\* the values a caller passes, per static type (a Vector4 and a MatrixXd are
\* only asked for)
InputsOf(T) ==
  IF T = Rot3 THEN {RotZ(1)}
  ELSE IF T = Vector3 THEN {Arr(3, 1, <<1, 2, 3>>)}
  ELSE IF T = VectorXd THEN {Arr(2, 1, <<4, 5>>)}
  ELSE IF T = Matrix22 THEN {Arr(2, 2, <<1, 2, 3, 4>>)}
  ELSE {}

\* a GenericValue<T> holding val: the holder's dynamic type and its payload
GenericValue(T, val) == [type |-> T, val |-> val]

(* ------------------------------------------------------------------ *)
(* Outcomes of a call: a return value or one of the exceptions         *)
(* ------------------------------------------------------------------ *)

Outcome(kind, what, key, val, actual, requested, dims) ==
  [kind |-> kind, what |-> what, key |-> key, val |-> val,
   actual |-> actual, requested |-> requested, dims |-> dims]

NoDims == <<0, 0, 0, 0>>

Return(val) == Outcome("ok", "", 0, val, NoType, NoType, NoDims)

\* boost::none
None == Outcome("none", "", 0, NoVal, NoType, NoType, NoDims)

ValuesKeyDoesNotExist(what, j) ==
  Outcome("KeyDoesNotExist", what, j, NoVal, NoType, NoType, NoDims)

ValuesKeyAlreadyExists(j) ==
  Outcome("DuplicateKey", "", j, NoVal, NoType, NoType, NoDims)

\* typeid(*pointer) is the stored holder's GenericValue<A>: kept as A
ValuesIncorrectType(j, actual, requested) ==
  Outcome("IncorrectType", "", j, NoVal, actual, requested, NoDims)

NoMatchFoundForFixed(M, N, r, c) ==
  Outcome("ShapeMismatch", "", 0, NoVal, NoType, NoType, <<M, N, r, c>>)

\* dynamic_cast<const GenericValue<T>&>(holder) succeeds
DynamicCastOk(T, holder) == holder.type = T

(* ------------------------------------------------------------------ *)
(* The key -> holder map (values_) and its untemplated operations.     *)
(* A container is a function from the present keys to their holders.   *)
(* ------------------------------------------------------------------ *)

EmptyValues == [k \in {} |-> GenericValue(NoType, NoVal)]

\* the result of a member function: its outcome and the container afterwards
Result(out, vals) == [out |-> out, vals |-> vals]

\* Values::insert(Key, const Value&): stores a clone of the holder
insertValue(vals, j, holder) ==
  IF j \in DOMAIN vals
    THEN Result(ValuesKeyAlreadyExists(j), vals)
    ELSE Result(Return(NoVal), [k \in DOMAIN vals \cup {j} |-> IF k = j THEN holder ELSE vals[k]])

\* Values::update(Key, const Value&): replaces the holder by a clone
updateValue(vals, j, holder) ==
  IF j \notin DOMAIN vals
    THEN Result(ValuesKeyDoesNotExist("update", j), vals)
    ELSE Result(Return(NoVal), [vals EXCEPT ![j] = holder])

\* Values::erase(Key)
erase(vals, j) ==
  IF j \notin DOMAIN vals
    THEN Result(ValuesKeyDoesNotExist("erase", j), vals)
    ELSE Result(Return(NoVal), [k \in DOMAIN vals \ {j} |-> vals[k]])

(* ------------------------------------------------------------------ *)
(* internal::handle_wrap and the templated insert / update             *)
(* ------------------------------------------------------------------ *)

\* a handle_wrap that keeps the caller's static type (no promotion)
handle_wrap_general(T, val) == GenericValue(T, val)

\* internal::handle_wrap<ValueType>()(j, val): the specialisation for
\* Matrix<double, M, 1> builds a GenericValue<VectorXd>, the one for
\* Matrix<double, M, N> a GenericValue<MatrixXd>, from val's coefficients
handle_wrap(T, val) ==
  IF T.kind = "Matrix" /\ T.cols = 1
    THEN GenericValue(VectorXd, Arr(val.rows, val.cols, val.data))
  ELSE IF T.kind = "Matrix"
    THEN GenericValue(MatrixXd, Arr(val.rows, val.cols, val.data))
  ELSE GenericValue(T, val)

\* an insert that overwrites a present key
insert_overwriting(T, vals, j, val) ==
  IF j \in DOMAIN vals
    THEN updateValue(vals, j, handle_wrap(T, val))
    ELSE insertValue(vals, j, handle_wrap(T, val))

\* template<typename ValueType> void Values::insert(Key j, const ValueType& val)
insert(T, vals, j, val) == insertValue(vals, j, handle_wrap(T, val))

\* template<typename ValueType> void Values::update(Key j, const ValueType& val)
update(T, vals, j, val) == updateValue(vals, j, handle_wrap(T, val))

(* ------------------------------------------------------------------ *)
(* Typed access                                                        *)
(* ------------------------------------------------------------------ *)

\* internal::handle<ValueType>, generic and for the dynamic vector / matrix:
\* the exact holder type or ValuesIncorrectType
handle_exact(T, j, pointer) ==
  IF DynamicCastOk(T, pointer)
    THEN Return(pointer.val)
    ELSE ValuesIncorrectType(j, pointer.type, T)

\* internal::handle<Eigen::Matrix<double, M, 1>> and <double, M, N>: the exact
\* holder type, else the dynamic holder with the shape checked
handle_fixed(T, Dyn, j, pointer) ==
  IF DynamicCastOk(T, pointer)
    THEN Return(pointer.val)
    ELSE LET A == handle_exact(Dyn, j, pointer)
         IN  IF A.kind # "ok"
               THEN A
             ELSE IF A.val.rows # T.rows \/ A.val.cols # T.cols
               THEN NoMatchFoundForFixed(T.rows, T.cols, A.val.rows, A.val.cols)
             ELSE Return(Arr(A.val.rows, A.val.cols, A.val.data))

\* internal::handle<ValueType>()(j, pointer), by the specialisation chosen
handle(T, j, pointer) ==
  IF IsFixedVector(T) THEN handle_fixed(T, VectorXd, j, pointer)
  ELSE IF IsFixedMatrix(T) THEN handle_fixed(T, MatrixXd, j, pointer)
  ELSE handle_exact(T, j, pointer)

\* an at that reports a present key of another type as missing
at_absent_on_mismatch(T, vals, j) ==
  IF j \notin DOMAIN vals
    THEN ValuesKeyDoesNotExist("at", j)
  ELSE IF DynamicCastOk(T, vals[j])
    THEN Return(vals[j].val)
  ELSE ValuesKeyDoesNotExist("at", j)

\* an at that hands the holder to internal::handle
at_through_handle(T, vals, j) ==
  IF j \notin DOMAIN vals
    THEN ValuesKeyDoesNotExist("at", j)
    ELSE handle(T, j, vals[j])

\* template<typename ValueType> ValueType Values::at(Key j) const
at(T, vals, j) ==
  IF j \notin DOMAIN vals
    THEN ValuesKeyDoesNotExist("at", j)
  ELSE IF DynamicCastOk(T, vals[j])
    THEN Return(vals[j].val)
  ELSE ValuesIncorrectType(j, vals[j].type, T)

\* an exists that throws for a missing key
exists_throwing(T, vals, j) ==
  IF j \in DOMAIN vals
    THEN IF DynamicCastOk(T, vals[j])
           THEN Return(vals[j].val)
           ELSE ValuesIncorrectType(j, vals[j].type, T)
    ELSE ValuesKeyDoesNotExist("exists", j)

\* template<typename ValueType> boost::optional<const ValueType&> Values::exists(Key j) const
exists(T, vals, j) ==
  IF j \in DOMAIN vals
    THEN IF DynamicCastOk(T, vals[j])
           THEN Return(vals[j].val)
           ELSE ValuesIncorrectType(j, vals[j].type, T)
    ELSE None

(* ------------------------------------------------------------------ *)
(* Iteration and the filtered views                                    *)
(* ------------------------------------------------------------------ *)

\* the key predicates filterFcn a caller passes, each as the set of keys it accepts
KeyPredicates == {Keys, {k \in Keys : k % 2 = 1}}

RECURSIVE Ascending(_)
Ascending(S) ==
  IF S = {} THEN <<>>
  ELSE LET m == CHOOSE x \in S : \A y \in S : x <= y
       IN  <<m>> \o Ascending(S \ {m})

\* Values::begin() .. Values::end(): the (key, Value&) pairs in key order
KeyValuePairs(vals) ==
  LET ks == Ascending(DOMAIN vals)
  IN  [i \in 1..Len(ks) |-> [key |-> ks[i], value |-> vals[ks[i]]]]

\* Values::filterHelper<Value>: the key predicate alone
filterHelper_Value(filterFcn, key_value) == key_value.key \in filterFcn

\* Values::filterHelper<ValueType>: the key predicate and the holder's type
filterHelper_typed(T, filterFcn, key_value) ==
  key_value.key \in filterFcn /\ DynamicCastOk(T, key_value.value)

\* a filterHelper that forgets the caller's key predicate
filterHelper_no_predicate(T, filterFcn, key_value) ==
  IF T = Value THEN TRUE ELSE DynamicCastOk(T, key_value.value)

\* boost::bind(&filterHelper<ValueType>, filterFcn, _1)
filterHelper(T, filterFcn, key_value) ==
  IF T = Value THEN filterHelper_Value(filterFcn, key_value)
  ELSE filterHelper_typed(T, filterFcn, key_value)

\* the payload seen through a static_cast to a GenericValue of another type
Undefined == [undefined |-> TRUE]

\* ValuesCastHelper<ValueType, ...>::cast: (key, Value&) -> (key, ValueType&);
\* for ValueType == Value the pair is passed on unchanged
cast(T, key_value) ==
  IF T = Value THEN key_value
  ELSE [key |-> key_value.key,
        value |-> GenericValue(T, IF DynamicCastOk(T, key_value.value)
                                    THEN key_value.value.val ELSE Undefined)]

\* boost::make_filter_iterator(filter, first, last), walked to its end
RECURSIVE filter_iterator(_, _, _)
filter_iterator(T, filterFcn, range) ==
  IF range = <<>> THEN <<>>
  ELSE IF filterHelper(T, filterFcn, Head(range))
    THEN <<Head(range)>> \o filter_iterator(T, filterFcn, Tail(range))
  ELSE filter_iterator(T, filterFcn, Tail(range))

\* boost::make_transform_iterator(it, &ValuesCastHelper<...>::cast)
transform_iterator(T, range) == [i \in 1..Len(range) |-> cast(T, range[i])]

\* a view that stops one entry short of the end
Filtered_short(T, filterFcn, vals) ==
  LET all == transform_iterator(T, filter_iterator(T, filterFcn, KeyValuePairs(vals)))
      cut == IF all = <<>> THEN all ELSE SubSeq(all, 1, Len(all) - 1)
  IN  [begin_ |-> cut, constBegin_ |-> cut]

\* Values::Filtered<ValueType>(filter, values): the traversal begin_ .. end_
\* and the const traversal constBegin_ .. constEnd_
Filtered(T, filterFcn, vals) ==
  [begin_ |-> transform_iterator(T, filter_iterator(T, filterFcn, KeyValuePairs(vals))),
   constBegin_ |-> transform_iterator(T, filter_iterator(T, filterFcn, KeyValuePairs(vals)))]

\* Values::ConstFiltered<ValueType>(filter, values) and the conversion from a Filtered
ConstFiltered(T, filterFcn, vals) ==
  [begin_ |-> Filtered(T, filterFcn, vals).constBegin_]

RECURSIVE count(_)
count(range) == IF range = <<>> THEN 0 ELSE 1 + count(Tail(range))

\* Values::Filtered<ValueType>::size()
Filtered_size(view) == count(view.constBegin_)

\* Values::ConstFiltered<ValueType>::size()
ConstFiltered_size(view) == count(view.begin_)

RECURSIVE push_back_keys(_, _)
push_back_keys(result, range) ==
  IF range = <<>> THEN result
  ELSE push_back_keys(Append(result, Head(range).key), Tail(range))

\* Values::ConstFiltered<ValueType>::keys()
ConstFiltered_keys(view) == push_back_keys(<<>>, view.begin_)

(* ------------------------------------------------------------------ *)
(* Construction of a Values from a view                                *)
(* ------------------------------------------------------------------ *)

\* insert(key, static_cast<const ValueType&>(key_value.value)): the untemplated
\* insert(Key, const Value&) for ValueType == Value, the templated one otherwise
insert_from_view(T, vals, key_value) ==
  IF T = Value THEN insertValue(vals, key_value.key, key_value.value)
  ELSE insert(T, vals, key_value.key, key_value.value.val)

\* BOOST_FOREACH(key_value, view) insert(...): an exception ends the loop
RECURSIVE insert_each(_, _, _)
insert_each(T, vals, range) ==
  IF range = <<>> THEN Result(Return(NoVal), vals)
  ELSE LET r == insert_from_view(T, vals, Head(range))
       IN  IF r.out.kind # "ok" THEN r
           ELSE insert_each(T, r.vals, Tail(range))

\* template<class ValueType> Values::Values(const Values::Filtered<ValueType>& view)
Values_from_Filtered(T, view) == insert_each(T, EmptyValues, view.begin_)

\* template<class ValueType> Values::Values(const Values::ConstFiltered<ValueType>& view)
Values_from_ConstFiltered(T, view) == insert_each(T, EmptyValues, view.begin_)

(* ------------------------------------------------------------------ *)
(* The state machine: a client owns the container `values_` and calls  *)
(* its member functions; in a nested scope it builds a second          *)
(* container `copy` from a filtered view of `values_`, calls one       *)
(* mutating member function on it and lets it go out of scope.         *)
(* Between two mutating calls the client makes at most one const call  *)
(* (at, exists, filter): a second one would see the same container.    *)
(* `res` records the last call and what it gave.                       *)
(* ------------------------------------------------------------------ *)

VARIABLES values_, copy, res

vars == <<values_, copy, res>>

NotBuilt == [built |-> FALSE, values_ |-> EmptyValues]

Built(vals) == [built |-> TRUE, values_ |-> vals]

\* the record of a call: the member function, the object it was called on, its
\* template argument and arguments, its outcome, and for a view its traversal
Call(op, target, T, j, pred, arg, out, view, size, keys) ==
  [op |-> op, target |-> target, type |-> T, key |-> j, pred |-> pred, arg |-> arg,
   out |-> out, view |-> view, size |-> size, keys |-> keys]

Targets == {"values", "copy"}

\* the object the client may call next: the copy once, right after it was built
Alive(t) ==
  IF t = "values" THEN ~copy.built
  ELSE copy.built /\ res.op \in {"construct", "construct const"}

ConstCalls == {"at", "exists", "filter", "filter const"}

\* a const call on values_ comes after a call that is not one
MayQuery == Alive("values") /\ res.op \notin ConstCalls

Container(t) == IF t = "values" THEN values_ ELSE copy.values_

Store(t, vals) ==
  IF t = "values"
    THEN values_' = vals /\ UNCHANGED copy
    ELSE copy' = Built(vals) /\ UNCHANGED values_

Init ==
  /\ values_ = EmptyValues
  /\ copy = NotBuilt
  /\ res = Call("init", "values", NoType, 0, {}, NoVal, Return(NoVal), <<>>, 0, <<>>)

Insert(t, T, j, val) ==
  /\ Alive(t)
  /\ LET r == insert(T, Container(t), j, val)
     IN  /\ Store(t, r.vals)
         /\ res' = Call("insert", t, T, j, {}, val, r.out, <<>>, 0, <<>>)

Update(t, T, j, val) ==
  /\ Alive(t)
  /\ LET r == update(T, Container(t), j, val)
     IN  /\ Store(t, r.vals)
         /\ res' = Call("update", t, T, j, {}, val, r.out, <<>>, 0, <<>>)

Erase(t, j) ==
  /\ Alive(t)
  /\ LET r == erase(Container(t), j)
     IN  /\ Store(t, r.vals)
         /\ res' = Call("erase", t, NoType, j, {}, NoVal, r.out, <<>>, 0, <<>>)

At(T, j) ==
  /\ MayQuery
  /\ res' = Call("at", "values", T, j, {}, NoVal, at(T, values_, j), <<>>, 0, <<>>)
  /\ UNCHANGED <<values_, copy>>

Exists(T, j) ==
  /\ MayQuery
  /\ res' = Call("exists", "values", T, j, {}, NoVal, exists(T, values_, j), <<>>, 0, <<>>)
  /\ UNCHANGED <<values_, copy>>

\* values.filter<T>(filterFcn) on a non-const container, traversed and counted
Filter(T, filterFcn) ==
  /\ MayQuery
  /\ LET view == Filtered(T, filterFcn, values_)
     IN  res' = Call("filter", "values", T, 0, filterFcn, NoVal, Return(NoVal),
                     view.begin_, Filtered_size(view), <<>>)
  /\ UNCHANGED <<values_, copy>>

\* values.filter<T>(filterFcn) on a const container, traversed, counted, keys() taken
FilterConst(T, filterFcn) ==
  /\ MayQuery
  /\ LET view == ConstFiltered(T, filterFcn, values_)
     IN  res' = Call("filter const", "values", T, 0, filterFcn, NoVal, Return(NoVal),
                     view.begin_, ConstFiltered_size(view), ConstFiltered_keys(view))
  /\ UNCHANGED <<values_, copy>>

\* Values copy(values.filter<T>(filterFcn)): an exception leaves no object behind
Construct(T, filterFcn) ==
  /\ Alive("values")
  /\ LET r == Values_from_Filtered(T, Filtered(T, filterFcn, values_))
     IN  /\ copy' = IF r.out.kind = "ok" THEN Built(r.vals) ELSE NotBuilt
         /\ res' = Call("construct", "copy", T, 0, filterFcn, NoVal, r.out, <<>>, 0, <<>>)
  /\ UNCHANGED values_

ConstructConst(T, filterFcn) ==
  /\ Alive("values")
  /\ LET r == Values_from_ConstFiltered(T, ConstFiltered(T, filterFcn, values_))
     IN  /\ copy' = IF r.out.kind = "ok" THEN Built(r.vals) ELSE NotBuilt
         /\ res' = Call("construct const", "copy", T, 0, filterFcn, NoVal, r.out, <<>>, 0, <<>>)
  /\ UNCHANGED values_

\* the copy goes out of scope
Destroy ==
  /\ copy.built
  /\ copy' = NotBuilt
  /\ res' = Call("~Values", "copy", NoType, 0, {}, NoVal, Return(NoVal), <<>>, 0, <<>>)
  /\ UNCHANGED values_

Next ==
  \/ \E t \in Targets, T \in ConcreteTypes, j \in Keys : \E val \in InputsOf(T) : Insert(t, T, j, val)
  \/ \E t \in Targets, T \in ConcreteTypes, j \in Keys : \E val \in InputsOf(T) : Update(t, T, j, val)
  \/ \E t \in Targets, j \in Keys : Erase(t, j)
  \/ \E T \in ConcreteTypes, j \in Keys : At(T, j)
  \/ \E T \in ConcreteTypes, j \in Keys : Exists(T, j)
  \/ \E T \in ConcreteTypes \cup {Value}, filterFcn \in KeyPredicates : Filter(T, filterFcn)
  \/ \E T \in ConcreteTypes \cup {Value}, filterFcn \in KeyPredicates : FilterConst(T, filterFcn)
  \/ \E T \in ConcreteTypes \cup {Value}, filterFcn \in KeyPredicates : Construct(T, filterFcn)
  \/ \E T \in ConcreteTypes \cup {Value}, filterFcn \in KeyPredicates : ConstructConst(T, filterFcn)
  \/ Destroy

Spec == Init /\ [][Next]_vars

(* ------------------------------------------------------------------ *)
(* Properties                                                          *)
(* ------------------------------------------------------------------ *)

\* the container the call recorded in res' was made on, before the call
PreVals == IF res'.target = "values" THEN values_ ELSE copy.values_

\* the dynamic-size type a fixed-size Eigen type is stored as
DynamicCounterpart(T) == IF IsFixedVector(T) THEN VectorXd ELSE MatrixXd

\* B is neither the stored type A nor a fixed-size type that A is the
\* dynamic-size counterpart of
Unrelated(B, A) == B # A /\ ~(IsFixed(B) /\ A = DynamicCounterpart(B))

\* insert<T>(k, v) succeeded on values_ and the next call is at<T>(k)
InsertThenAt ==
  /\ res.op = "insert" /\ res.target = "values" /\ res.out.kind = "ok"
  /\ res'.op = "at" /\ res'.type = res.type /\ res'.key = res.key

\* C1 (promotion round trip): when insert(k, v) of a fixed-size length-3
\* vector v under an absent key k is followed by at<Vector3>(k), the at
\* raises nothing and returns a vector equal to v.
C1_PromotionRoundTrip ==
  [][(InsertThenAt /\ res.type = Vector3) =>
       (res'.out.kind = "ok" /\ res'.out.val = res.arg)]_vars

\* C2 (shape mismatch): at<T>(k) for a fixed-size Eigen type T, when k holds
\* the dynamic-size counterpart of T with another shape, fails with
\* ShapeMismatch(T's rows, T's cols, stored rows, stored cols); so
\* at<Vector4> on a stored 3x1 vector gives ShapeMismatch(4, 1, 3, 1).
C2_ShapeMismatch ==
  (/\ res.op = "at" /\ IsFixed(res.type)
   /\ res.key \in DOMAIN values_
   /\ values_[res.key].type = DynamicCounterpart(res.type)
   /\ (\/ values_[res.key].val.rows # res.type.rows
       \/ values_[res.key].val.cols # res.type.cols))
  => res.out = NoMatchFoundForFixed(res.type.rows, res.type.cols,
                                    values_[res.key].val.rows, values_[res.key].val.cols)

\* C3 (round trip): when insert(k, v) with v of any storable type T under an
\* absent key k is followed immediately by at<T>(k), the at returns a value
\* equal to v.
C3_RoundTrip ==
  [][InsertThenAt => (res'.out.kind = "ok" /\ res'.out.val = res.arg)]_vars

\* C4 (type safety): at<B>(k) and exists<B>(k) on a present key k whose stored
\* type A is unrelated to B fail with IncorrectType(k, actual A, requested B):
\* they return no value and do not report the key as missing.
C4_TypeSafety ==
  (/\ res.op \in {"at", "exists"}
   /\ res.key \in DOMAIN values_
   /\ Unrelated(res.type, values_[res.key].type))
  => res.out = ValuesIncorrectType(res.key, values_[res.key].type, res.type)

\* exists<Rot3>(k) was called on a key that holds a dynamic vector
C4_Witness ==
  /\ res.op = "exists" /\ res.type = Rot3
  /\ res.key \in DOMAIN values_
  /\ values_[res.key].type = VectorXd
  /\ res.out.kind = "IncorrectType"

\* C5 (missing key): on an absent key k, at<T>(k), update(k, _) and erase(k)
\* fail with KeyDoesNotExist naming the operation and k, exists<T>(k) returns
\* empty without an error, and none of them changes a container.
C5_MissingKey ==
  [][(res'.op \in {"at", "exists", "update", "erase"} /\ res'.key \notin DOMAIN PreVals) =>
       (/\ IF res'.op = "exists"
             THEN res'.out = None
             ELSE res'.out = ValuesKeyDoesNotExist(res'.op, res'.key)
        /\ values_' = values_
        /\ copy' = copy)]_vars

\* update was called on a key missing from a non-empty container
C5_Witness ==
  /\ res.op = "update" /\ res.target = "values"
  /\ res.key \notin DOMAIN values_
  /\ values_ # EmptyValues
  /\ res.out.kind = "KeyDoesNotExist"

\* C6 (duplicate rejection): insert(k, v) on a present key k fails with
\* DuplicateKey(k) and leaves every container as it was: the same keys, and
\* the same stored type and value under every key.
C6_DuplicateRejected ==
  [][(res'.op = "insert" /\ res'.key \in DOMAIN PreVals) =>
       (/\ res'.out = ValuesKeyAlreadyExists(res'.key)
        /\ values_' = values_
        /\ copy' = copy)]_vars

\* insert was refused on a key that holds something else than the value offered
C6_Witness ==
  /\ res.op = "insert" /\ res.target = "values"
  /\ res.out.kind = "DuplicateKey"
  /\ res.key \in DOMAIN values_
  /\ values_[res.key] # handle_wrap(res.type, res.arg)

\* the keys a traversal yields, in the order it yields them
YieldedKeys(range) == [i \in 1..Len(range) |-> range[i].key]

\* the keys of values_ whose stored type is T
KeysOfType(T) == {k \in DOMAIN values_ : values_[k].type = T}

\* C7 (filter correctness): filter<T>(always true), through either view,
\* yields exactly the keys whose stored type is T, each once and in ascending
\* key order; size() is the number of such keys and keys() lists them in the
\* same order.
C7_FilterCorrect ==
  (res.op \in {"filter", "filter const"} /\ res.pred = Keys /\ res.type \in ConcreteTypes)
  => LET ks == YieldedKeys(res.view)
     IN  /\ {ks[i] : i \in 1..Len(ks)} = KeysOfType(res.type)
         /\ \A i, j \in 1..Len(ks) : i < j => ks[i] < ks[j]
         /\ res.size = Cardinality(KeysOfType(res.type))
         /\ res.op = "filter const" => res.keys = ks

\* a const view over a container of mixed types yielded two keys and skipped another
C7_Witness ==
  /\ res.op = "filter const" /\ res.pred = Keys /\ res.type \in ConcreteTypes
  /\ Len(res.view) >= 2
  /\ Len(res.view) < Cardinality(DOMAIN values_)

\* the stored holder is a T (every holder is a Value)
IsA(T, holder) == T = Value \/ holder.type = T

\* C8 (view-to-container copy): constructing a container from filter<T>(pred),
\* through either view, raises nothing and gives a container with exactly the
\* keys k of values_ that pred accepts and whose holder is a T, each with the
\* holder values_ has under k; and a later insert, update or erase on the copy
\* leaves values_ unchanged.
C8_ViewCopy ==
  [][/\ res'.op \in {"construct", "construct const"} =>
          /\ res'.out.kind = "ok"
          /\ copy'.built
          /\ DOMAIN copy'.values_ =
               {k \in DOMAIN values_ : k \in res'.pred /\ IsA(res'.type, values_[k])}
          /\ \A k \in DOMAIN copy'.values_ : copy'.values_[k] = values_[k]
          /\ values_' = values_
     /\ (res'.target = "copy" /\ res'.op \in {"insert", "update", "erase"}) =>
          values_' = values_]_vars

\* a key copied out of values_ was updated in the copy, which now differs from values_ there
C8_Witness ==
  /\ res.op = "update" /\ res.target = "copy" /\ res.out.kind = "ok"
  /\ res.key \in DOMAIN values_
  /\ copy.values_[res.key] # values_[res.key]
  /\ Cardinality(DOMAIN copy.values_) < Cardinality(DOMAIN values_)

\* the container the call recorded in res was made on, after the call
PostVals == IF res.target = "values" THEN values_ ELSE copy.values_

\* C9 (promotion invariant): no holder of any container has a fixed-size
\* Eigen type; a value inserted or updated as a fixed-size vector is held as
\* a VectorXd, one passed as a fixed-size matrix as a MatrixXd, with the
\* rows, columns and coefficients of the value passed.
C9_NoFixedStored ==
  /\ \A k \in DOMAIN values_ : ~IsFixed(values_[k].type)
  /\ \A k \in DOMAIN copy.values_ : ~IsFixed(copy.values_[k].type)
  /\ (res.op \in {"insert", "update"} /\ res.out.kind = "ok" /\ IsFixed(res.type)) =>
       /\ PostVals[res.key].type = DynamicCounterpart(res.type)
       /\ PostVals[res.key].val.rows = res.type.rows
       /\ PostVals[res.key].val.cols = res.type.cols
       /\ PostVals[res.key].val.data = res.arg.data

\* a fixed-size 2x2 matrix replaced, by update, a holder of another type
C9_Witness ==
  /\ res.op = "update" /\ res.target = "values" /\ res.out.kind = "ok"
  /\ res.type = Matrix22
  /\ \E k \in DOMAIN values_ : values_[k].type = VectorXd

\* C10 (update replaces one entry only): update(k, v) with v of type T on a
\* present key k succeeds, keeps the key set and the holder of every other
\* key, stores v wrapped as insert would wrap it, and a following at<T>(k)
\* returns a value equal to v.
C10_UpdateOneEntry ==
  [][/\ (res'.op = "update" /\ res'.key \in DOMAIN PreVals) =>
          LET post == IF res'.target = "values" THEN values_' ELSE copy'.values_
          IN  /\ res'.out.kind = "ok"
              /\ DOMAIN post = DOMAIN PreVals
              /\ \A k \in DOMAIN PreVals \ {res'.key} : post[k] = PreVals[k]
              /\ post[res'.key] = handle_wrap(res'.type, res'.arg)
     /\ (/\ res.op = "update" /\ res.target = "values" /\ res.out.kind = "ok"
         /\ res'.op = "at" /\ res'.type = res.type /\ res'.key = res.key) =>
          (res'.out.kind = "ok" /\ res'.out.val = res.arg)]_vars

====
